---- MODULE Spec2Model ----
(***************************************************************************)
(* Storefront product screen (src/src/pages/ProductDetail.tsx) and admin   *)
(* order list (src/unnamed/part_000, the AdminOrders component).           *)
(*                                                                         *)
(* Three specifications share this module:                                 *)
(*   SpecNormalize  the data path of fetchOrders (items / address          *)
(*                  normalisation) applied to bounded raw backend rows;    *)
(*   SpecAdmin      the AdminOrders component as an event-driven state     *)
(*                  machine with asynchronous backend calls;               *)
(*   SpecProduct    the ProductDetail component.                           *)
(***************************************************************************)
EXTENDS Integers, Sequences, FiniteSets, TLC

VARIABLES
    \* ---- SpecNormalize
    ordersData,     \* the rows the orders query returned (raw, loosely typed)
    fetchResult,    \* pending, or the outcome of the fetchOrders data path
    \* ---- SpecAdmin: the backend
    db,             \* the orders table: order id -> raw row
    \* ---- SpecAdmin: the component's state (useState, lines 24-29)
    orders,
    loading,
    statusFilter,
    searchTerm,
    selectedOrder,
    isDetailsOpen,
    \* ---- SpecAdmin: asynchronous calls awaiting their answer
    fetches,        \* fetchOrders calls in flight, by slot
    updates,        \* updateOrderStatus calls in flight, by slot
    now,            \* the clock new Date() reads
    \* ---- SpecAdmin: what the last handler step did (outputs, for observation)
    toasts,         \* the notifications (sonner toast) it raised
    lastStep,       \* the backend calls that failed in it, the update it settled
    ordersQuery,    \* the query whose answer setOrders last stored
    \* ---- SpecProduct: the route and the component's state (lines 18-26)
    routeId,        \* useParams().id
    quantity,
    selectedOptions,
    product,
    productOptions,
    isLoading,
    \* ---- SpecProduct: the rest
    productFetches, \* fetchProduct calls in flight, by slot
    screen,         \* "product", or "cart" after navigate('/cart')
    cartItem,       \* the item handed to addToCart, JSNull before
    rendered,       \* the state values the last render closed over
    unrendered      \* events handled since the last render

normVars == <<ordersData, fetchResult>>
adminVars == <<db, orders, loading, statusFilter, searchTerm, selectedOrder,
               isDetailsOpen, fetches, updates, now, ordersQuery>>
outVars == <<toasts, lastStep>>
productVars == <<routeId, quantity, selectedOptions, product, productOptions,
                 isLoading, productFetches, screen, cartItem, rendered,
                 unrendered>>
vars == <<normVars, adminVars, outVars, productVars>>

\* Longest list of raw rows the normalisation is applied to.
MaxRows == 2
\* fetchOrders calls in all (the one on mount included).
MaxFetches == 2
\* updateOrderStatus calls in all.
MaxUpdates == 1
\* Last value of the clock.
MaxClock == 1
\* fetchProduct calls in all (the one on mount included).
MaxProductFetches == 2
\* Largest quantity the buyer raises the counter to.
MaxQuantity == 3
\* Most events of the product screen handled between two renders.
MaxUnrendered == 2

(***************************************************************************)
(* JavaScript values.  A value is a record tagged by its typeof-class; a   *)
(* string carries its text, an object its own enumerable properties (a     *)
(* function from key to value), an array its elements.                     *)
(***************************************************************************)
JSUndefined == [t |-> "undefined"]
JSNull == [t |-> "null"]
JSNum(n) == [t |-> "number", num |-> n]
JSBool(b) == [t |-> "boolean", bool |-> b]
JSStr(s) == [t |-> "string", str |-> s]
JSObj(f) == [t |-> "object", obj |-> f]
JSArr(a) == [t |-> "array", arr |-> a]
\* A thrown exception, as the outcome of an expression that can throw.
Thrown == [t |-> "throw"]

\* typeof v  (null and arrays are "object")
TypeOf(v) ==
    IF v.t \in {"null", "array"} THEN "object" ELSE v.t

\* Array.isArray(v)
IsArray(v) == v.t = "array"

\* ToBoolean(v): undefined, null, 0, false and "" are falsy
Truthy(v) ==
    CASE v.t = "undefined" -> FALSE
      [] v.t = "null" -> FALSE
      [] v.t = "number" -> v.num # 0
      [] v.t = "boolean" -> v.bool
      [] v.t = "string" -> v.str # ""
      [] OTHER -> TRUE

\* v[key] on a non-nullish v: the property, or undefined when v has none
Get(v, key) ==
    IF v.t = "object" /\ key \in DOMAIN v.obj THEN v.obj[key] ELSE JSUndefined

\* a || b
OrElse(a, b) == IF Truthy(a) THEN a ELSE b

(***************************************************************************)
(* The objects and JSON texts the raw rows are built from.                 *)
(***************************************************************************)
AddressKeys == {"street", "number", "neighborhood", "city", "state", "zipCode"}

ObjEmpty == JSObj(<<>>)
ObjFull ==
    JSObj([street |-> JSStr("Rua A"), number |-> JSStr("12"),
           neighborhood |-> JSStr("Centro"), city |-> JSStr("Vitoria"),
           state |-> JSStr("ES"), zipCode |-> JSStr("29000")])
ObjPartial == JSObj([street |-> JSStr("Rua A"), city |-> JSStr("Vitoria")])
ObjExtra == JSObj([customer_name |-> JSStr("Ana"), zipCode |-> JSStr("29000")])
ObjFalsy == JSObj([street |-> JSStr(""), number |-> JSNum(0), city |-> JSNull])
ObjTyped == JSObj([number |-> JSNum(12), state |-> JSBool(TRUE)])

LineItem == JSObj([productId |-> JSStr("p1"), quantity |-> JSNum(2)])
ArrEmpty == JSArr(<<>>)
ArrItems == JSArr(<<LineItem>>)

\* JSON.parse(text): the parsed value, or Thrown (SyntaxError) for text that is
\* not JSON.  The texts are the ones the raw rows below can hold.
JSONParse(text) ==
    CASE text = "null" -> JSNull
      [] text = "0" -> JSNum(0)
      [] text = "5" -> JSNum(5)
      [] text = "true" -> JSBool(TRUE)
      [] text = "\"Rua A, 12\"" -> JSStr("Rua A, 12")
      [] text = "[]" -> ArrEmpty
      [] text = "[{\"productId\":\"p1\",\"quantity\":2}]" -> ArrItems
      [] text = "{}" -> ObjEmpty
      [] text = "{\"street\":\"Rua A\",\"number\":\"12\",\"neighborhood\":\"Centro\",\"city\":\"Vitoria\",\"state\":\"ES\",\"zipCode\":\"29000\"}" -> ObjFull
      [] text = "{\"street\":\"Rua A\",\"city\":\"Vitoria\"}" -> ObjPartial
      [] text = "{\"customer_name\":\"Ana\",\"zipCode\":\"29000\"}" -> ObjExtra
      [] text = "{\"street\":\"\",\"number\":0,\"city\":null}" -> ObjFalsy
      [] text = "{\"number\":12,\"state\":true}" -> ObjTyped
      [] OTHER -> Thrown

JSONTexts ==
    {"null", "0", "5", "true", "\"Rua A, 12\"", "[]",
     "[{\"productId\":\"p1\",\"quantity\":2}]", "{}",
     "{\"street\":\"Rua A\",\"number\":\"12\",\"neighborhood\":\"Centro\",\"city\":\"Vitoria\",\"state\":\"ES\",\"zipCode\":\"29000\"}",
     "{\"street\":\"Rua A\",\"city\":\"Vitoria\"}",
     "{\"customer_name\":\"Ana\",\"zipCode\":\"29000\"}",
     "{\"street\":\"\",\"number\":0,\"city\":null}",
     "{\"number\":12,\"state\":true}"}

\* Texts JSON.parse rejects: the empty string, free text, truncated JSON.
BadTexts == {"", "Rua A, 12", "{\"street\":"}

\* Every shape the address column of a raw row takes.
AddressValues ==
    {JSUndefined, JSNull, JSNum(0), JSNum(7), JSBool(TRUE), ArrEmpty,
     ObjEmpty, ObjFull, ObjPartial, ObjExtra, ObjFalsy, ObjTyped}
    \cup {JSStr(s) : s \in JSONTexts \cup BadTexts}

\* Every shape the items column of a raw row takes.
ItemsValues ==
    {JSUndefined, JSNull, JSNum(3), ArrEmpty, ArrItems, ObjPartial}
    \cup {JSStr(s) : s \in {"[]", "[{\"productId\":\"p1\",\"quantity\":2}]",
                           "{}", "{\"street\":\"Rua A\",\"city\":\"Vitoria\"}",
                           "5", "null", "", "{\"street\":"}}

(***************************************************************************)
(* fetchOrders: the per-row callback of ordersData.map (lines 59-149).     *)
(***************************************************************************)
EmptyAddress == [k \in AddressKeys |-> JSStr("")]

\* { street: a.street || "", ... }
PickAddress(a) == [k \in AddressKeys |-> OrElse(Get(a, k), JSStr(""))]

\* lines 73-80: the try block, then the catch
ParseItemsTry(items) ==
    IF TypeOf(items) = "string" THEN JSONParse(items.str)
    ELSE IF IsArray(items) THEN items ELSE ArrEmpty

ParseItems(items) ==
    LET r == ParseItemsTry(items) IN IF r = Thrown THEN ArrEmpty ELSE r

\* lines 84-131: the try block; Thrown when JSON.parse throws
ParseAddressTry(address) ==
    IF ~Truthy(address) THEN EmptyAddress
    ELSE IF TypeOf(address) = "string" THEN
        LET addr == JSONParse(address.str) IN
        IF addr = Thrown THEN Thrown
        ELSE IF Truthy(addr) /\ TypeOf(addr) = "object" THEN PickAddress(addr)
        ELSE EmptyAddress
    ELSE IF TypeOf(address) = "object" THEN PickAddress(address)
    ELSE EmptyAddress

\* Mutation of ParseAddress: the try block without its catch.
ParseAddress_NoCatch(address) == ParseAddressTry(address)

\* lines 83-141: try ... catch { parsedAddress = default }
ParseAddress(address) ==
    LET r == ParseAddressTry(address) IN IF r = Thrown THEN EmptyAddress ELSE r

\* lines 59-149: one row and the outcome of its profile lookup; the result is
\* the normalised order, or Thrown when an exception leaves the callback.
MapOrder(order, profile) ==
    LET parsedItems == ParseItems(order.items)
        parsedAddress == ParseAddress(order.address)
    IN  IF parsedItems = Thrown \/ parsedAddress = Thrown THEN Thrown
        ELSE [id |-> order.id, user_id |-> order.user_id,
              status |-> order.status, total |-> order.total,
              created_at |-> order.created_at, updated_at |-> order.updated_at,
              items |-> parsedItems, address |-> parsedAddress,
              profiles |-> profile]

\* lines 58-152: Promise.all over the rows; one rejected callback rejects the
\* whole, and fetchOrders' catch then leaves the list as it was.
MapOrders(rows, profiles) ==
    LET mapped == [i \in 1..Len(rows) |-> MapOrder(rows[i], profiles[i])] IN
    IF \E i \in 1..Len(rows) : mapped[i] = Thrown
    THEN [ok |-> FALSE, orders |-> <<>>]
    ELSE [ok |-> TRUE, orders |-> mapped]

(***************************************************************************)
(* SpecNormalize: the data path of fetchOrders on bounded raw rows.        *)
(***************************************************************************)
\* The profiles table: user u1 has a profile row, user u2 has none.
ProfileOf(userId) ==
    IF userId = "u1" THEN JSObj([name |-> JSStr("Ana")]) ELSE JSNull

\* A raw row of the orders table; id is the row's place in the answer.
RawRow(userId, items, address) ==
    [user_id |-> userId, status |-> "pending", total |-> 2600,
     created_at |-> 0, updated_at |-> 0, items |-> items, address |-> address]

\* Rows that vary the address, the items, or the user of a well-formed row.
RawRows ==
    {RawRow("u1", ArrItems, a) : a \in AddressValues}
    \cup {RawRow("u1", i, ObjFull) : i \in ItemsValues}
    \cup {RawRow("u2", ArrItems, ObjFull)}

WithIds(rows) ==
    [i \in 1..Len(rows) |->
        [id |-> i, user_id |-> rows[i].user_id, status |-> rows[i].status,
         total |-> rows[i].total, created_at |-> rows[i].created_at,
         updated_at |-> rows[i].updated_at, items |-> rows[i].items,
         address |-> rows[i].address]]

RowLists == UNION {[1..n -> RawRows] : n \in 1..MaxRows}

\* The variables of the admin screen while another specification runs.
AdminUnused ==
    /\ db = <<>> /\ orders = <<>> /\ loading = FALSE
    /\ statusFilter = "all" /\ searchTerm = ""
    /\ selectedOrder = JSNull /\ isDetailsOpen = FALSE
    /\ fetches = <<>> /\ updates = <<>> /\ now = 0
    /\ ordersQuery = <<>>

\* The variables of the product screen while another specification runs.
ProductUnused ==
    /\ routeId = "" /\ quantity = 1 /\ selectedOptions = <<>>
    /\ product = JSNull /\ productOptions = <<>> /\ isLoading = FALSE
    /\ productFetches = <<>> /\ screen = "" /\ cartItem = JSNull
    /\ rendered = JSNull /\ unrendered = 0

InitNormalize ==
    /\ ordersData \in {WithIds(rows) : rows \in RowLists}
    /\ fetchResult = [state |-> "pending"]
    /\ AdminUnused
    /\ ProductUnused
    /\ toasts = <<>>
    /\ lastStep = <<>>

\* lines 58-152 applied to the answer of the orders query
NormalizeOrders ==
    /\ fetchResult.state = "pending"
    /\ LET r == MapOrders(ordersData,
                          [i \in 1..Len(ordersData) |->
                              ProfileOf(ordersData[i].user_id)])
       IN fetchResult' = [state |-> "done", ok |-> r.ok, orders |-> r.orders]
    /\ UNCHANGED ordersData
    /\ UNCHANGED <<adminVars, outVars, productVars>>

NextNormalize == NormalizeOrders

SpecNormalize == InitNormalize /\ [][NextNormalize]_vars

(***************************************************************************)
(* Claims about the normalisation.                                         *)
(***************************************************************************)
\* The object a raw address denotes: the parsed text for a string JSON.parse
\* accepts, the value itself otherwise.
AddressSource(address) ==
    IF address.t = "string" /\ address.str \in JSONTexts
    THEN JSONParse(address.str) ELSE address

HasKey(v, k) == v.t = "object" /\ k \in DOMAIN v.obj

\* C1: whatever the raw address of a row (absent, null, text that is not
\* JSON, text parsing to a non-object, a partial object, another type), the
\* fetch raises nothing, every row is still in the result in its place, and
\* its address has exactly the six keys street, number, neighborhood, city,
\* state, zipCode, every key the source lacks being the empty string.
C1_AddressAlwaysSixFields ==
    fetchResult.state = "done" =>
        /\ fetchResult.ok
        /\ Len(fetchResult.orders) = Len(ordersData)
        /\ \A i \in 1..Len(ordersData) :
            LET o == fetchResult.orders[i]
                src == AddressSource(ordersData[i].address)
            IN  /\ o.id = ordersData[i].id
                /\ DOMAIN o.address = AddressKeys
                /\ \A k \in AddressKeys :
                    ~HasKey(src, k) => o.address[k] = JSStr("")

\* C1 witness: a fetch normalised an address that is not JSON to the empty
\* shape and, in the same answer, filled the missing keys of a partial one.
C1_Witness ==
    /\ fetchResult.state = "done"
    /\ \E i, j \in 1..Len(ordersData) :
        /\ ordersData[i].address = JSStr("{\"street\":")
        /\ fetchResult.orders[i].address = EmptyAddress
        /\ ordersData[j].address = JSStr("{\"street\":\"Rua A\",\"city\":\"Vitoria\"}")
        /\ fetchResult.orders[j].address.street = JSStr("Rua A")
        /\ fetchResult.orders[j].address.zipCode = JSStr("")

\* Items the claim calls malformed: text that is not JSON, text that parses
\* to something other than a sequence, a value that is neither text nor a
\* sequence.
MalformedItems(items) ==
    IF items.t = "string"
    THEN items.str \notin JSONTexts \/ JSONParse(items.str).t # "array"
    ELSE items.t # "array"

\* C2 (as stated): the normalised items of every row are a sequence, and the
\* empty sequence when the raw items are malformed.
C2_ItemsAlwaysSequence ==
    (fetchResult.state = "done" /\ fetchResult.ok) =>
        \A i \in 1..Len(ordersData) :
            /\ IsArray(fetchResult.orders[i].items)
            /\ MalformedItems(ordersData[i].items)
                   => fetchResult.orders[i].items = ArrEmpty

(***************************************************************************)
(* JavaScript numbers: IEEE-754 binary64, round to nearest, ties to even.  *)
(* A positive number is m * 2^e with m a natural of exactly MantissaBits   *)
(* bits, so equal numbers are equal records.  Naturals too wide for a      *)
(* machine integer are sequences of limbs, least significant first, with   *)
(* no zero limb at the top (zero is the empty sequence).                   *)
(***************************************************************************)
MantissaBits == 53
LimbBits == 15
LimbBase == 2 ^ LimbBits

RECURSIVE BNorm(_)
BNorm(a) ==
    IF a = <<>> THEN <<>>
    ELSE IF a[Len(a)] = 0 THEN BNorm(SubSeq(a, 1, Len(a) - 1)) ELSE a

BFromNat(n) == IF n = 0 THEN <<>> ELSE <<n>>

RECURSIVE BAddC(_, _, _)
BAddC(a, b, carry) ==
    IF a = <<>> /\ b = <<>> THEN (IF carry = 0 THEN <<>> ELSE <<carry>>)
    ELSE LET x == IF a = <<>> THEN 0 ELSE Head(a)
             y == IF b = <<>> THEN 0 ELSE Head(b)
             sum == x + y + carry
         IN  <<sum % LimbBase>> \o
             BAddC(IF a = <<>> THEN <<>> ELSE Tail(a),
                   IF b = <<>> THEN <<>> ELSE Tail(b), sum \div LimbBase)

BAdd(a, b) == BAddC(a, b, 0)

\* a * k for 0 <= k < LimbBase
RECURSIVE BMulC(_, _, _)
BMulC(a, k, carry) ==
    IF a = <<>> THEN (IF carry = 0 THEN <<>> ELSE <<carry>>)
    ELSE LET prod == Head(a) * k + carry
         IN  <<prod % LimbBase>> \o BMulC(Tail(a), k, prod \div LimbBase)

BMulSmall(a, k) == BNorm(BMulC(a, k, 0))

\* a divided by k, 0 < k < LimbBase: quotient q and remainder r
RECURSIVE BDivR(_, _, _)
BDivR(a, k, rem) ==
    IF a = <<>> THEN [q |-> <<>>, r |-> rem]
    ELSE LET cur == rem * LimbBase + a[Len(a)]
             rest == BDivR(SubSeq(a, 1, Len(a) - 1), k, cur % k)
         IN  [q |-> rest.q \o <<cur \div k>>, r |-> rest.r]

BDivSmall(a, k) ==
    LET d == BDivR(a, k, 0) IN [q |-> BNorm(d.q), r |-> d.r]

RECURSIVE NatBits(_)
NatBits(n) == IF n = 0 THEN 0 ELSE 1 + NatBits(n \div 2)

BitLen(a) ==
    IF a = <<>> THEN 0 ELSE LimbBits * (Len(a) - 1) + NatBits(a[Len(a)])

BIsOdd(a) == a # <<>> /\ a[1] % 2 = 1

\* a * 2^s
BShl(a, s) ==
    IF a = <<>> THEN <<>>
    ELSE BMulSmall([i \in 1..(s \div LimbBits) |-> 0] \o a,
                   2 ^ (s % LimbBits))

\* a divided by 2^s: quotient q, and whether the remainder is not zero
BShr(a, s) ==
    LET w == s \div LimbBits
        low == SubSeq(a, 1, IF w < Len(a) THEN w ELSE Len(a))
        high == SubSeq(a, w + 1, Len(a))
        d == BDivSmall(high, 2 ^ (s % LimbBits))
    IN  [q |-> d.q,
         rest |-> d.r # 0 \/ \E i \in 1..Len(low) : low[i] # 0]

FZero == [m |-> <<>>, e |-> 0]

\* The number nearest to (n + f) * 2^e, where f is a fraction in [0, 1) that
\* is not zero exactly when sticky; n has more than MantissaBits + 1 bits
\* whenever sticky.
FRound(n, e, sticky) ==
    LET len == BitLen(n) IN
    IF n = <<>> THEN FZero
    ELSE IF len <= MantissaBits
    THEN [m |-> BShl(n, MantissaBits - len), e |-> e - (MantissaBits - len)]
    ELSE LET s == len - MantissaBits
             half == BShr(n, s - 1)
             q == BShr(half.q, 1).q
             roundBit == BIsOdd(half.q)
             below == half.rest \/ sticky
             up == roundBit /\ (below \/ BIsOdd(q))
             r == IF up THEN BAdd(q, <<1>>) ELSE q
         IN  IF BitLen(r) > MantissaBits
             THEN [m |-> BShr(r, 1).q, e |-> e + s + 1]
             ELSE [m |-> r, e |-> e + s]

\* Number(text) for a decimal price with two places: the number nearest to
\* cents / 100
FromCents(cents) ==
    LET d == BDivSmall(BShl(BFromNat(cents), 5 * LimbBits), 100)
    IN  FRound(d.q, 0 - 5 * LimbBits, d.r # 0)

\* x + y
FAdd(x, y) ==
    IF x = FZero THEN y
    ELSE IF y = FZero THEN x
    ELSE LET lo == IF x.e < y.e THEN x.e ELSE y.e
         IN  FRound(BAdd(BShl(x.m, x.e - lo), BShl(y.m, y.e - lo)), lo, FALSE)

\* x * k, k a natural below LimbBase
FMulNat(x, k) == FRound(BMulSmall(x.m, k), x.e, FALSE)

\* x / k, k a positive natural below LimbBase
FDivNat(x, k) ==
    LET d == BDivSmall(BShl(x.m, 2 * LimbBits), k)
    IN  FRound(d.q, x.e - 2 * LimbBits, d.r # 0)

\* NaN, Infinity and the negative numbers, which the prices reach only
\* through a quantity that is not positive
FNaN == [nan |-> TRUE]
FInfinity == [inf |-> TRUE]
FNeg(x) == IF x \in {FZero, FNaN} THEN x ELSE [neg |-> x]
FIsNeg(x) == "neg" \in DOMAIN x

\* x * k for an integer k
FMulInt(x, k) ==
    IF x = FNaN THEN FNaN
    ELSE IF k >= 0 THEN FMulNat(x, k)
    ELSE FNeg(FMulNat(x, 0 - k))

\* x / k for an integer k
FDivInt(x, k) ==
    IF x = FNaN THEN FNaN
    ELSE IF k = 0
    THEN IF x = FZero THEN FNaN
         ELSE IF FIsNeg(x) THEN FNeg(FInfinity) ELSE FInfinity
    ELSE IF k > 0
    THEN IF FIsNeg(x) THEN FNeg(FDivNat(x.neg, k)) ELSE FDivNat(x, k)
    ELSE IF FIsNeg(x) THEN FDivNat(x.neg, 0 - k)
         ELSE FNeg(FDivNat(x, 0 - k))

(***************************************************************************)
(* AdminOrders (src/unnamed/part_000).                                     *)
(***************************************************************************)
\* keys of OrderStatusMap, lines 14-21
OrderStatus ==
    {"pending", "processing", "delivering", "delivered", "cancelled",
     "awaiting_payment"}

\* values of the status Select, lines 236-242
StatusFilters == {"all"} \cup OrderStatus

\* texts typed into the search Input, line 223
SearchTerms == {"", "a1"}

\* The orders table, newest first (created_at descending).
OrderIds == <<"a1c4", "b2d8">>

InitialRow(id, status) ==
    IF id = "a1c4"
    THEN [id |-> id, user_id |-> "u1", status |-> status, total |-> 2600,
          created_at |-> 2, updated_at |-> 0,
          items |-> JSStr("[{\"productId\":\"p1\",\"quantity\":2}]"),
          address |-> JSStr("{\"street\":\"Rua A\",\"city\":\"Vitoria\"}")]
    ELSE [id |-> id, user_id |-> "u2", status |-> "delivered", total |-> 1300,
          created_at |-> 1, updated_at |-> 0,
          items |-> ArrItems, address |-> ObjFull]

\* id.ilike.%term% (line 48)
ILike(id, term) ==
    \/ term = ""
    \/ term = "a1" /\ id = "a1c4"

\* lines 38-51 without the condition on status of lines 43-45
QueryOrders_NoStatusFilter(table, filter, term) ==
    LET all == [i \in 1..Len(OrderIds) |-> table[OrderIds[i]]]
        Keep(row) == term # "" => ILike(row.id, term)
    IN  SelectSeq(all, Keep)

\* lines 38-51: the rows the query selects, in created_at descending order
QueryOrders(table, filter, term) ==
    LET all == [i \in 1..Len(OrderIds) |-> table[OrderIds[i]]]
        Keep(row) ==
            /\ filter # "all" => row.status = filter
            /\ term # "" => ILike(row.id, term)
    IN  SelectSeq(all, Keep)

\* A call is idle (not made yet), in flight (its phase says where), or done.
Idle == [phase |-> "idle"]
Done == [phase |-> "done"]
FetchSlots == 1..MaxFetches
UpdateSlots == 1..MaxUpdates
InFlight(call) == call.phase \notin {"idle", "done"}

\* The slot of the next call; 0 when the bound on calls is reached.
FreeSlot(slots) ==
    IF \E i \in DOMAIN slots : slots[i] = Idle
    THEN CHOOSE i \in DOMAIN slots :
            slots[i] = Idle /\ \A j \in DOMAIN slots : slots[j] = Idle => i <= j
    ELSE 0

NoStep == [failed |-> {}, update |-> JSNull]

\* The status the list shows for an order, "absent" when it is not listed.
ShownStatus(list, orderId) ==
    IF \E j \in 1..Len(list) : list[j].id = orderId
    THEN (CHOOSE o \in {list[j] : j \in 1..Len(list)} : o.id = orderId).status
    ELSE "absent"
ErrorToast(what) == [kind |-> "error", message |-> what]
SuccessToast(what) == [kind |-> "success", message |-> what]

\* State after the component mounted: useState initial values, and the
\* effect of lines 31-33 has called fetchOrders once (setLoading(true), the
\* query sent with statusFilter 'all' and no search term).
InitAdmin ==
    /\ \E s \in OrderStatus :
          db = [id \in {OrderIds[i] : i \in 1..Len(OrderIds)} |->
                   InitialRow(id, s)]
    /\ orders = <<>>
    /\ loading = TRUE
    /\ statusFilter = "all"
    /\ searchTerm = ""
    /\ selectedOrder = JSNull
    /\ isDetailsOpen = FALSE
    /\ fetches = [i \in FetchSlots |->
                     IF i = 1
                     THEN [phase |-> "query", statusFilter |-> "all",
                           searchTerm |-> ""]
                     ELSE Idle]
    /\ updates = [i \in UpdateSlots |-> Idle]
    /\ now = 0
    /\ toasts = <<>>
    /\ lastStep = NoStep
    /\ ordersQuery = JSNull
    /\ ordersData = <<>>
    /\ fetchResult = [state |-> "pending"]
    /\ ProductUnused

\* lines 35-51: fetchOrders up to its first await, called by the effect with
\* the filter values of the render that scheduled it
StartFetch(filter, term) ==
    /\ FreeSlot(fetches) # 0
    /\ loading' = TRUE
    /\ fetches' = [fetches EXCEPT ![FreeSlot(fetches)] =
                      [phase |-> "query", statusFilter |-> filter,
                       searchTerm |-> term]]

\* line 230 (onValueChange={setStatusFilter}) and the effect of lines 31-33
SetStatusFilter(value) ==
    /\ ~isDetailsOpen
    /\ value # statusFilter
    /\ statusFilter' = value
    /\ StartFetch(value, searchTerm)
    /\ toasts' = <<>>
    /\ lastStep' = NoStep
    /\ UNCHANGED <<db, orders, searchTerm, selectedOrder, isDetailsOpen,
                   updates, now, ordersQuery>>
    /\ UNCHANGED <<normVars, productVars>>

\* line 223 (onChange sets searchTerm) and the effect of lines 31-33
SetSearchTerm(value) ==
    /\ ~isDetailsOpen
    /\ value # searchTerm
    /\ searchTerm' = value
    /\ StartFetch(statusFilter, value)
    /\ toasts' = <<>>
    /\ lastStep' = NoStep
    /\ UNCHANGED <<db, orders, statusFilter, selectedOrder, isDetailsOpen,
                   updates, now, ordersQuery>>
    /\ UNCHANGED <<normVars, productVars>>

\* lines 51-55 and 153-158: the orders query answers with an error
QueryFails(i) ==
    /\ fetches[i].phase = "query"
    /\ fetches' = [fetches EXCEPT ![i] = Done]
    /\ toasts' = <<ErrorToast("Erro ao buscar pedidos")>>
    /\ loading' = FALSE
    /\ lastStep' = [failed |-> {"orders"}, update |-> JSNull]
    /\ UNCHANGED <<db, orders, statusFilter, searchTerm, selectedOrder,
                   isDetailsOpen, updates, now, ordersQuery>>
    /\ UNCHANGED <<normVars, productVars>>

\* lines 51-67: the orders query answers with rows; one profile lookup per
\* row is sent
QueryAnswers(i) ==
    /\ fetches[i].phase = "query"
    /\ fetches' = [fetches EXCEPT ![i] =
                      [phase |-> "profiles",
                       statusFilter |-> fetches[i].statusFilter,
                       searchTerm |-> fetches[i].searchTerm,
                       rows |-> QueryOrders(db, fetches[i].statusFilter,
                                            fetches[i].searchTerm)]]
    /\ toasts' = <<>>
    /\ lastStep' = NoStep
    /\ UNCHANGED <<db, orders, loading, statusFilter, searchTerm,
                   selectedOrder, isDetailsOpen, updates, now, ordersQuery>>
    /\ UNCHANGED <<normVars, productVars>>

\* lines 63-71: the profile each lookup yields; a lookup that fails yields no
\* data, and its error is not read
ProfilesFound(rows, failedLookups) ==
    [j \in 1..Len(rows) |->
        IF j \in failedLookups THEN JSNull ELSE ProfileOf(rows[j].user_id)]

\* Mutation of ProfilesAnswer: the answer of a fetch whose filter values are
\* no longer the current ones is dropped.
ProfilesAnswer_DropStale(i, failedLookups) ==
    /\ fetches[i].phase = "profiles"
    /\ IF /\ fetches[i].statusFilter = statusFilter
          /\ fetches[i].searchTerm = searchTerm
       THEN /\ orders' = MapOrders(fetches[i].rows,
                             ProfilesFound(fetches[i].rows, failedLookups)).orders
            /\ ordersQuery' = [statusFilter |-> fetches[i].statusFilter,
                               searchTerm |-> fetches[i].searchTerm]
       ELSE UNCHANGED <<orders, ordersQuery>>
    /\ toasts' = <<>>
    /\ loading' = FALSE
    /\ fetches' = [fetches EXCEPT ![i] = Done]
    /\ lastStep' = [failed |-> IF failedLookups = {} THEN {} ELSE {"profiles"},
                    update |-> JSNull]
    /\ UNCHANGED <<db, statusFilter, searchTerm, selectedOrder, isDetailsOpen,
                   updates, now>>
    /\ UNCHANGED <<normVars, productVars>>

\* lines 58-158: every profile lookup has answered (those in failedLookups
\* with an error); rows are normalised, stored, and loading ends
ProfilesAnswer(i, failedLookups) ==
    /\ fetches[i].phase = "profiles"
    /\ LET r == MapOrders(fetches[i].rows,
                          ProfilesFound(fetches[i].rows, failedLookups))
       IN IF r.ok
          THEN /\ orders' = r.orders
               /\ ordersQuery' = [statusFilter |-> fetches[i].statusFilter,
                                  searchTerm |-> fetches[i].searchTerm]
               /\ toasts' = <<>>
          ELSE /\ UNCHANGED <<orders, ordersQuery>>
               /\ toasts' = <<ErrorToast("Erro ao buscar pedidos")>>
    /\ loading' = FALSE
    /\ fetches' = [fetches EXCEPT ![i] = Done]
    /\ lastStep' = [failed |-> IF failedLookups = {} THEN {} ELSE {"profiles"},
                    update |-> JSNull]
    /\ UNCHANGED <<db, statusFilter, searchTerm, selectedOrder, isDetailsOpen,
                   updates, now>>
    /\ UNCHANGED <<normVars, productVars>>

\* lines 190-194 and 305-313: the button of a row of the rendered table (the
\* table is rendered only when loading is false, line 249)
ViewOrderDetails(j) ==
    /\ ~loading
    /\ ~isDetailsOpen
    /\ j \in 1..Len(orders)
    /\ selectedOrder' = orders[j]
    /\ isDetailsOpen' = TRUE
    /\ toasts' = <<>>
    /\ lastStep' = NoStep
    /\ UNCHANGED <<db, orders, loading, statusFilter, searchTerm, fetches,
                   updates, now, ordersQuery>>
    /\ UNCHANGED <<normVars, productVars>>

\* line 327: onClose
CloseDetails ==
    /\ isDetailsOpen
    /\ isDetailsOpen' = FALSE
    /\ toasts' = <<>>
    /\ lastStep' = NoStep
    /\ UNCHANGED <<db, orders, loading, statusFilter, searchTerm,
                   selectedOrder, fetches, updates, now, ordersQuery>>
    /\ UNCHANGED <<normVars, productVars>>

\* The place of a status in the workflow pending -> processing ->
\* delivering -> delivered (the side states last).
StatusRank(status) ==
    CASE status = "awaiting_payment" -> 0
      [] status = "pending" -> 1
      [] status = "processing" -> 2
      [] status = "delivering" -> 3
      [] status = "delivered" -> 4
      [] OTHER -> 5

\* Mutation of UpdateOrderStatus: a transition guard that refuses to move an
\* order backwards in the workflow.
UpdateOrderStatus_ForwardOnly(newStatus) ==
    /\ isDetailsOpen
    /\ selectedOrder # JSNull
    /\ StatusRank(newStatus) >= StatusRank(selectedOrder.status)
    /\ FreeSlot(updates) # 0
    /\ updates' = [updates EXCEPT ![FreeSlot(updates)] =
                      [phase |-> "sent", orderId |-> selectedOrder.id,
                       newStatus |-> newStatus, updated_at |-> now,
                       selectedOrder |-> selectedOrder]]
    /\ toasts' = <<>>
    /\ lastStep' = NoStep
    /\ UNCHANGED <<db, orders, loading, statusFilter, searchTerm,
                   selectedOrder, isDetailsOpen, fetches, now, ordersQuery>>
    /\ UNCHANGED <<normVars, productVars>>

\* lines 161-166: updateOrderStatus up to its await, called by the details
\* dialog (line 328) for the order it shows; the payload's updated_at and
\* the closure's selectedOrder are those of the call
UpdateOrderStatus(newStatus) ==
    /\ isDetailsOpen
    /\ selectedOrder # JSNull
    /\ FreeSlot(updates) # 0
    /\ updates' = [updates EXCEPT ![FreeSlot(updates)] =
                      [phase |-> "sent", orderId |-> selectedOrder.id,
                       newStatus |-> newStatus, updated_at |-> now,
                       selectedOrder |-> selectedOrder]]
    /\ toasts' = <<>>
    /\ lastStep' = NoStep
    /\ UNCHANGED <<db, orders, loading, statusFilter, searchTerm,
                   selectedOrder, isDetailsOpen, fetches, now, ordersQuery>>
    /\ UNCHANGED <<normVars, productVars>>

\* lines 163-166, in the backend: the row with that id takes the payload
BackendWrites(i) ==
    /\ updates[i].phase = "sent"
    /\ db' = [db EXCEPT ![updates[i].orderId] =
                 [@ EXCEPT !.status = updates[i].newStatus,
                           !.updated_at = updates[i].updated_at]]
    /\ updates' = [updates EXCEPT ![i].phase = "written"]
    /\ UNCHANGED <<orders, loading, statusFilter, searchTerm, selectedOrder,
                   isDetailsOpen, fetches, now, toasts, lastStep, ordersQuery>>
    /\ UNCHANGED <<normVars, productVars>>

\* Mutation of PatchOrders: the id test is lost, every order is patched.
PatchOrders_EveryOrder(prev, orderId, newStatus, at) ==
    [j \in 1..Len(prev) |->
        [prev[j] EXCEPT !.status = newStatus, !.updated_at = at]]

\* lines 170-174: prev.map(...)
PatchOrders(prev, orderId, newStatus, at) ==
    [j \in 1..Len(prev) |->
        IF prev[j].id = orderId
        THEN [prev[j] EXCEPT !.status = newStatus, !.updated_at = at]
        ELSE prev[j]]

\* lines 168-184: the write answered without error
UpdateSucceeds(i) ==
    /\ updates[i].phase = "written"
    /\ orders' = PatchOrders(orders, updates[i].orderId,
                             updates[i].newStatus, now)
    /\ selectedOrder' =
          IF updates[i].selectedOrder # JSNull
             /\ updates[i].selectedOrder.id = updates[i].orderId
          THEN [updates[i].selectedOrder EXCEPT
                   !.status = updates[i].newStatus, !.updated_at = now]
          ELSE selectedOrder
    /\ toasts' = <<SuccessToast("Status do pedido atualizado com sucesso")>>
    /\ updates' = [updates EXCEPT ![i] = Done]
    /\ lastStep' = [failed |-> {},
                    update |-> [orderId |-> updates[i].orderId,
                                from |-> ShownStatus(orders, updates[i].orderId),
                                newStatus |-> updates[i].newStatus,
                                ok |-> TRUE]]
    /\ UNCHANGED <<db, loading, statusFilter, searchTerm, isDetailsOpen,
                   fetches, now, ordersQuery>>
    /\ UNCHANGED <<normVars, productVars>>

\* Mutation of UpdateFails: the local patch is applied although the write
\* failed (an optimistic patch that is not rolled back).
UpdateFails_PatchAnyway(i) ==
    /\ updates[i].phase = "sent"
    /\ orders' = PatchOrders(orders, updates[i].orderId,
                             updates[i].newStatus, now)
    /\ toasts' = <<ErrorToast("Erro ao atualizar status")>>
    /\ updates' = [updates EXCEPT ![i] = Done]
    /\ lastStep' = [failed |-> {"update"},
                    update |-> [orderId |-> updates[i].orderId,
                                from |-> ShownStatus(orders, updates[i].orderId),
                                newStatus |-> updates[i].newStatus,
                                ok |-> FALSE]]
    /\ UNCHANGED <<db, loading, statusFilter, searchTerm,
                   selectedOrder, isDetailsOpen, fetches, now, ordersQuery>>
    /\ UNCHANGED <<normVars, productVars>>

\* lines 168 and 185-187: the write answered with an error
UpdateFails(i) ==
    /\ updates[i].phase = "sent"
    /\ toasts' = <<ErrorToast("Erro ao atualizar status")>>
    /\ updates' = [updates EXCEPT ![i] = Done]
    /\ lastStep' = [failed |-> {"update"},
                    update |-> [orderId |-> updates[i].orderId,
                                from |-> ShownStatus(orders, updates[i].orderId),
                                newStatus |-> updates[i].newStatus,
                                ok |-> FALSE]]
    /\ UNCHANGED <<db, orders, loading, statusFilter, searchTerm,
                   selectedOrder, isDetailsOpen, fetches, now, ordersQuery>>
    /\ UNCHANGED <<normVars, productVars>>

\* time passes
Tick ==
    /\ now < MaxClock
    /\ now' = now + 1
    /\ UNCHANGED <<db, orders, loading, statusFilter, searchTerm,
                   selectedOrder, isDetailsOpen, fetches, updates, toasts,
                   lastStep, ordersQuery>>
    /\ UNCHANGED <<normVars, productVars>>

\* The refetch events and the answers to fetchOrders' calls.
FetchActions ==
    \/ \E v \in StatusFilters : SetStatusFilter(v)
    \/ \E v \in SearchTerms : SetSearchTerm(v)
    \/ \E i \in FetchSlots : QueryFails(i)
    \/ \E i \in FetchSlots : QueryAnswers(i)
    \/ \E i \in FetchSlots :
          \E failedLookups \in SUBSET (1..Len(OrderIds)) :
             /\ fetches[i].phase = "profiles"
             /\ failedLookups \subseteq 1..Len(fetches[i].rows)
             /\ ProfilesAnswer(i, failedLookups)

\* The answers to the fetchOrders call made on mount.
MountFetchActions ==
    \/ QueryFails(1)
    \/ QueryAnswers(1)
    \/ \E failedLookups \in SUBSET (1..Len(OrderIds)) :
          /\ fetches[1].phase = "profiles"
          /\ failedLookups \subseteq 1..Len(fetches[1].rows)
          /\ ProfilesAnswer(1, failedLookups)

\* The details dialog and updateOrderStatus.
UpdateActions ==
    \/ \E j \in 1..Len(OrderIds) : ViewOrderDetails(j)
    \/ CloseDetails
    \/ \E s \in OrderStatus : UpdateOrderStatus(s)
    \/ \E i \in UpdateSlots : BackendWrites(i)
    \/ \E i \in UpdateSlots : UpdateSucceeds(i)
    \/ \E i \in UpdateSlots : UpdateFails(i)
    \/ Tick

\* The whole component.
NextAdmin == FetchActions \/ UpdateActions
SpecAdmin == InitAdmin /\ [][NextAdmin]_vars

\* The order list under filter and search changes, no status being updated.
NextFetch == FetchActions
SpecFetch == InitAdmin /\ [][NextFetch]_vars

\* Status updates on the list fetched on mount, the filters left alone.
NextUpdate == MountFetchActions \/ UpdateActions
SpecUpdate == InitAdmin /\ [][NextUpdate]_vars

\* Status filter changes and status updates together, the search term and
\* the clock left alone; the filter is chosen among 'all' and two statuses,
\* the new status of an order among the same two.
FilterChoices == {"all", "pending", "delivered"}
StatusChoices == {"pending", "delivered"}

NextFilterUpdate ==
    \/ \E v \in FilterChoices : SetStatusFilter(v)
    \/ \E i \in FetchSlots : QueryFails(i)
    \/ \E i \in FetchSlots : QueryAnswers(i)
    \/ \E i \in FetchSlots : ProfilesAnswer(i, {})
    \/ \E j \in 1..Len(OrderIds) : ViewOrderDetails(j)
    \/ CloseDetails
    \/ \E s \in StatusChoices : UpdateOrderStatus(s)
    \/ \E i \in UpdateSlots : BackendWrites(i)
    \/ \E i \in UpdateSlots : UpdateSucceeds(i)
    \/ \E i \in UpdateSlots : UpdateFails(i)
SpecFilterUpdate == InitAdmin /\ [][NextFilterUpdate]_vars

(***************************************************************************)
(* Claims about updateOrderStatus.                                         *)
(***************************************************************************)
\* The step in which the backend applies the write of call i.
WriteStep(i) == updates[i].phase = "sent" /\ updates'[i].phase = "written"
\* The step in which call i returns after a successful write.
SuccessStep(i) == updates[i].phase = "written" /\ updates'[i].phase = "done"
\* The step in which call i returns after a failed write.
FailureStep(i) == updates[i].phase = "sent" /\ updates'[i].phase = "done"

\* C5: no transition guard.  Whatever the status s of the order the dialog
\* shows, updateOrderStatus can be called with every status t (backwards
\* moves included); its write, when the backend applies it, leaves the row
\* with status t, and its return leaves the listed order with status t.
C5_NoTransitionGuard ==
    /\ [](isDetailsOpen /\ selectedOrder # JSNull /\ FreeSlot(updates) # 0
            => \A t \in OrderStatus : ENABLED UpdateOrderStatus(t))
    /\ [][\A i \in UpdateSlots :
            /\ WriteStep(i) =>
                  db'[updates[i].orderId].status = updates[i].newStatus
            /\ SuccessStep(i) =>
                  \A j \in 1..Len(orders') :
                     orders'[j].id = updates[i].orderId
                        => orders'[j].status = updates[i].newStatus]_vars

\* C5 witness: an order that was delivered is pending again, in the backend
\* and in the list, after one successful call.
C5_Witness ==
    /\ lastStep.update # JSNull
    /\ lastStep.update.ok
    /\ lastStep.update.from = "delivered"
    /\ lastStep.update.newStatus = "pending"
    /\ db[lastStep.update.orderId].status = "pending"
    /\ ShownStatus(orders, lastStep.update.orderId) = "pending"

\* C6: a successful updateOrderStatus(orderId, X) changes, in the backend row
\* and in the list, only status and updated_at of the order with that id;
\* every other field of it and every other order stay as they were; an order
\* already in status X keeps it.
C6_UpdateFrame ==
    [][\A i \in UpdateSlots :
          LET id == updates[i].orderId
              X == updates[i].newStatus
          IN  /\ WriteStep(i) =>
                    /\ \A other \in DOMAIN db \ {id} : db'[other] = db[other]
                    /\ \A f \in DOMAIN db[id] \ {"status", "updated_at"} :
                          db'[id][f] = db[id][f]
              /\ SuccessStep(i) =>
                    /\ Len(orders') = Len(orders)
                    /\ \A j \in 1..Len(orders) :
                          IF orders[j].id = id
                          THEN /\ DOMAIN orders'[j] = DOMAIN orders[j]
                               /\ \A f \in DOMAIN orders[j]
                                         \ {"status", "updated_at"} :
                                     orders'[j][f] = orders[j][f]
                               /\ orders'[j].status = X
                               /\ orders[j].status = X =>
                                     orders'[j].status = orders[j].status
                          ELSE orders'[j] = orders[j]]_vars

\* C6 witness: an order already in status X was set to X; the list holds
\* it with the same status and a later timestamp, next to another order.
C6_Witness ==
    /\ lastStep.update # JSNull
    /\ lastStep.update.ok
    /\ lastStep.update.from = lastStep.update.newStatus
    /\ Len(orders) = 2
    /\ \E j \in 1..Len(orders) :
          /\ orders[j].id = lastStep.update.orderId
          /\ orders[j].status = lastStep.update.newStatus
          /\ orders[j].updated_at = 1

\* C7: when the write fails, the call only raises an error notification: the
\* list, the selected order and the backend keep status and timestamp, no
\* success notification is raised and no write is sent again.
C7_FailureOnlyNotifies ==
    [][\A i \in UpdateSlots :
          FailureStep(i) =>
             /\ orders' = orders
             /\ selectedOrder' = selectedOrder
             /\ db' = db
             /\ toasts' = <<ErrorToast("Erro ao atualizar status")>>
             /\ \A k \in UpdateSlots :
                   updates'[k].phase = "sent" => updates[k].phase = "sent"
             /\ UNCHANGED <<loading, statusFilter, searchTerm, isDetailsOpen,
                            fetches>>]_vars

\* C7 witness: a write to another status failed; the error is shown and the
\* listed and the selected order still have the old status.
C7_Witness ==
    /\ lastStep.update # JSNull
    /\ ~lastStep.update.ok
    /\ lastStep.update.from # lastStep.update.newStatus
    /\ toasts = <<ErrorToast("Erro ao atualizar status")>>
    /\ ShownStatus(orders, lastStep.update.orderId) = lastStep.update.from
    /\ selectedOrder.id = lastStep.update.orderId
    /\ selectedOrder.status = lastStep.update.from
    /\ db[lastStep.update.orderId].status = lastStep.update.from

(***************************************************************************)
(* Claims about fetchOrders.                                               *)
(***************************************************************************)
\* C8 (as stated): once the orders query of a fetch has failed, the list is
\* empty and loading is false.
C8_FailedFetchEmptiesList ==
    "orders" \in lastStep.failed => (orders = <<>> /\ loading = FALSE)

\* C9 (as stated): a step in which a backend call failed raises an error
\* notification.
C9_EveryFailureNotified ==
    lastStep.failed # {} =>
        \E k \in 1..Len(toasts) : toasts[k].kind = "error"

\* No fetchOrders call is awaiting an answer.
NoFetchInFlight == \A i \in FetchSlots : ~InFlight(fetches[i])

\* C10: fetches are never cancelled and complete in any order.  A change of
\* filter or search term leaves every call in flight as it is; every call in
\* flight can be answered next, whatever else is in flight; and the answer of
\* a call is stored as the list whatever the current filter values are.
C10_FetchesNeverCancelled ==
    /\ [](\A i \in FetchSlots :
            /\ fetches[i].phase = "query" => ENABLED QueryAnswers(i)
            /\ fetches[i].phase = "profiles" => ENABLED ProfilesAnswer(i, {}))
    /\ [][\A i \in FetchSlots :
            /\ (InFlight(fetches[i])
                 /\ (statusFilter' # statusFilter \/ searchTerm' # searchTerm))
                  => fetches'[i] = fetches[i]
            /\ (fetches[i].phase = "profiles" /\ fetches'[i].phase = "done")
                  => /\ ordersQuery' = [statusFilter |-> fetches[i].statusFilter,
                                        searchTerm |-> fetches[i].searchTerm]
                     /\ Len(orders') = Len(fetches[i].rows)
                     /\ \A j \in 1..Len(orders') :
                           /\ orders'[j].id = fetches[i].rows[j].id
                           /\ orders'[j].status = fetches[i].rows[j].status]_vars

\* C10 witness: nothing is in flight, and the list is the answer to the query
\* of an earlier filter value: it shows an order the current filter excludes.
C10_Witness ==
    /\ NoFetchInFlight
    /\ ~loading
    /\ ordersQuery # JSNull
    /\ ordersQuery.statusFilter # statusFilter
    /\ statusFilter # "all"
    /\ \E j \in 1..Len(orders) : orders[j].status # statusFilter

\* ====================================================================
\* ProductDetail (src/src/pages/ProductDetail.tsx)
\* ====================================================================

ProductIds == {"p1", "p2"}

\* The products table; prices are decimal texts, given here in cents.
ProductsTable(id) ==
    IF id = "p1"
    THEN [id |-> "p1", name |-> "Pizza", price |-> 1000]
    ELSE [id |-> "p2", name |-> "Lasanha", price |-> 1990]

\* The product_options rows of a product with their option_variations.
OptionsTable(id) ==
    IF id = "p1"
    THEN << [id |-> "o1", title |-> "Tamanho", required |-> TRUE,
             option_variations |->
                << [id |-> "v1", name |-> "Grande", price |-> 300],
                   [id |-> "v2", name |-> "Media", price |-> 0] >>],
            [id |-> "o2", title |-> "Extras", required |-> FALSE,
             option_variations |->
                << [id |-> "v3", name |-> "Molho", price |-> 150] >>] >>
    ELSE << [id |-> "o3", title |-> "Borda", required |-> TRUE,
             option_variations |->
                << [id |-> "v4", name |-> "Catupiry", price |-> 300] >>] >>

ProductSlots == 1..MaxProductFetches

\* lines 65-72: the product as setProduct stores it
FormatProduct(productData) ==
    [id |-> productData.id, name |-> productData.name,
     price |-> FromCents(productData.price)]

\* lines 75-85, with a cap of two choices for the options that are not
\* required
FormatOptions_MultiSelect(optionsData) ==
    [o \in 1..Len(optionsData) |->
        [id |-> optionsData[o].id,
         title |-> optionsData[o].title,
         required |-> optionsData[o].required,
         maxOptions |-> IF optionsData[o].required THEN JSNum(1)
                        ELSE JSNum(2),
         variations |->
            [v \in 1..Len(optionsData[o].option_variations) |->
                [id |-> optionsData[o].option_variations[v].id,
                 name |-> optionsData[o].option_variations[v].name,
                 price |->
                    LET n == FromCents(optionsData[o].option_variations[v].price)
                    IN  IF n = FZero THEN FZero ELSE n]]]]

\* lines 75-85: the options as setProductOptions stores them
FormatOptions(optionsData) ==
    [o \in 1..Len(optionsData) |->
        [id |-> optionsData[o].id,
         title |-> optionsData[o].title,
         required |-> optionsData[o].required,
         maxOptions |-> IF optionsData[o].required THEN JSNum(1)
                        ELSE JSUndefined,
         variations |->
            [v \in 1..Len(optionsData[o].option_variations) |->
                [id |-> optionsData[o].option_variations[v].id,
                 name |-> optionsData[o].option_variations[v].name,
                 price |->
                    LET n == FromCents(optionsData[o].option_variations[v].price)
                    IN  IF n = FZero THEN FZero ELSE n]]]]

\* lines 22-26: the values of the state variables that a render hands to
\* the handlers and to the elements it draws
Snapshot ==
    [quantity |-> quantity, selectedOptions |-> selectedOptions,
     product |-> product, productOptions |-> productOptions,
     isLoading |-> isLoading]

\* State after the component mounted on a product route: useState initial
\* values, the first render, and the effect of lines 28-98 has sent the
\* product query.
InitProduct ==
    /\ routeId \in ProductIds
    /\ quantity = 1
    /\ selectedOptions = <<>>
    /\ product = JSNull
    /\ productOptions = <<>>
    /\ isLoading = TRUE
    /\ productFetches = [i \in ProductSlots |->
            IF i = 1 THEN [phase |-> "product", id |-> routeId] ELSE Idle]
    /\ screen = "product"
    /\ cartItem = JSNull
    /\ rendered = [quantity |-> 1, selectedOptions |-> <<>>,
                   product |-> JSNull, productOptions |-> <<>>,
                   isLoading |-> TRUE]
    /\ unrendered = 0
    /\ toasts = <<>>
    /\ lastStep = NoStep
    /\ ordersData = <<>>
    /\ fetchResult = [state |-> "pending"]
    /\ AdminUnused

\* lines 28-98: the route's id changes, the effect runs fetchProduct again;
\* quantity and selectedOptions keep their values
ChangeRoute(newId) ==
    /\ screen = "product"
    /\ newId # routeId
    /\ \E i \in ProductSlots : productFetches[i] = Idle
    /\ routeId' = newId
    /\ isLoading' = TRUE
    /\ productFetches' = [productFetches EXCEPT ![FreeSlot(productFetches)] =
                            [phase |-> "product", id |-> newId]]
    /\ toasts' = <<>>
    /\ lastStep' = NoStep
    /\ UNCHANGED <<quantity, selectedOptions, product, productOptions,
                   screen, cartItem, rendered, unrendered>>
    /\ UNCHANGED <<normVars, adminVars>>

\* lines 36-49 and 92-94: the product query answers with an error
ProductQueryFails(i) ==
    /\ screen = "product"
    /\ productFetches[i].phase = "product"
    /\ productFetches' = [productFetches EXCEPT ![i] = Done]
    /\ toasts' = <<ErrorToast("Erro ao carregar o produto")>>
    /\ isLoading' = FALSE
    /\ lastStep' = [failed |-> {"product"}, update |-> JSNull]
    /\ UNCHANGED <<routeId, quantity, selectedOptions, product,
                   productOptions, screen, cartItem, rendered, unrendered>>
    /\ UNCHANGED <<normVars, adminVars>>

\* lines 36-58: the product query answers with the row; the options query
\* is sent
ProductQueryAnswers(i) ==
    /\ screen = "product"
    /\ productFetches[i].phase = "product"
    /\ productFetches' = [productFetches EXCEPT ![i] =
            [phase |-> "options", id |-> productFetches[i].id,
             productData |-> ProductsTable(productFetches[i].id)]]
    /\ toasts' = <<>>
    /\ lastStep' = NoStep
    /\ UNCHANGED <<routeId, quantity, selectedOptions, product,
                   productOptions, isLoading, screen, cartItem, rendered, unrendered>>
    /\ UNCHANGED <<normVars, adminVars>>

\* lines 52-94: the options query answers with rows
OptionsQueryAnswers(i) ==
    /\ screen = "product"
    /\ productFetches[i].phase = "options"
    /\ productFetches' = [productFetches EXCEPT ![i] = Done]
    /\ product' = FormatProduct(productFetches[i].productData)
    /\ productOptions' = FormatOptions(OptionsTable(productFetches[i].id))
    /\ isLoading' = FALSE
    /\ toasts' = <<>>
    /\ lastStep' = NoStep
    /\ UNCHANGED <<routeId, quantity, selectedOptions, screen, cartItem, rendered, unrendered>>
    /\ UNCHANGED <<normVars, adminVars>>

\* lines 52-94: the options query answers with an error; line 60-62 logs it
\* to the console and the function goes on with no options
OptionsQueryFails(i) ==
    /\ screen = "product"
    /\ productFetches[i].phase = "options"
    /\ productFetches' = [productFetches EXCEPT ![i] = Done]
    /\ product' = FormatProduct(productFetches[i].productData)
    /\ productOptions' = FormatOptions(<<>>)
    /\ isLoading' = FALSE
    /\ toasts' = <<>>
    /\ lastStep' = [failed |-> {"product_options"}, update |-> JSNull]
    /\ UNCHANGED <<routeId, quantity, selectedOptions, screen, cartItem, rendered, unrendered>>
    /\ UNCHANGED <<normVars, adminVars>>

\* lines 192-215: the product page itself is rendered
PageShown ==
    /\ screen = "product"
    /\ ~rendered.isLoading
    /\ rendered.product # JSNull

\* An event reaches a handler of the last render; the state it sets is
\* drawn by a later render.
HandlesEvent ==
    /\ unrendered < MaxUnrendered
    /\ unrendered' = unrendered + 1
    /\ UNCHANGED rendered

\* The component function runs again with the current state.
Render ==
    /\ screen = "product"
    /\ rendered # Snapshot \/ unrendered > 0
    /\ rendered' = Snapshot
    /\ unrendered' = 0
    /\ UNCHANGED <<routeId, quantity, selectedOptions, product,
                   productOptions, isLoading, productFetches, screen,
                   cartItem>>
    /\ UNCHANGED <<normVars, adminVars, outVars>>

\* selectedOptions is an object from option id to a list of variation ids,
\* held as the sequence of its entries in Object.entries order (insertion
\* order of the keys).
HasEntry(selected, optionId) ==
    \E a \in 1..Len(selected) : selected[a].optionId = optionId

\* selected[optionId], <<>> standing for the lists [] and undefined alike
\* where the code reads both the same way (lines 123, 189, 284, 301)
EntryOf(selected, optionId) ==
    IF HasEntry(selected, optionId)
    THEN selected[CHOOSE a \in 1..Len(selected) :
                    selected[a].optionId = optionId].variationIds
    ELSE <<>>

\* { ...prev, [optionId]: ids }
WithEntry(prev, optionId, ids) ==
    IF HasEntry(prev, optionId)
    THEN [a \in 1..Len(prev) |->
            IF prev[a].optionId = optionId
            THEN [optionId |-> optionId, variationIds |-> ids]
            ELSE prev[a]]
    ELSE Append(prev, [optionId |-> optionId, variationIds |-> ids])

Includes(ids, id) == \E b \in 1..Len(ids) : ids[b] = id

\* lines 104-106
HandleIncreaseQuantity ==
    /\ PageShown
    /\ HandlesEvent
    /\ quantity < MaxQuantity
    /\ quantity' = quantity + 1
    /\ toasts' = <<>>
    /\ lastStep' = NoStep
    /\ UNCHANGED <<routeId, selectedOptions, product, productOptions,
                   isLoading, productFetches, screen, cartItem>>
    /\ UNCHANGED <<normVars, adminVars>>

\* lines 108-112; the button is disabled while quantity <= 1 (line 332)
HandleDecreaseQuantity ==
    /\ PageShown
    /\ HandlesEvent
    /\ ~(rendered.quantity <= 1)
    /\ quantity' = IF rendered.quantity > 1 THEN quantity - 1 ELSE quantity
    /\ toasts' = <<>>
    /\ lastStep' = NoStep
    /\ UNCHANGED <<routeId, selectedOptions, product, productOptions,
                   isLoading, productFetches, screen, cartItem>>
    /\ UNCHANGED <<normVars, adminVars>>

\* lines 114-119
HandleRadioChange(prev, optionId, variationId) ==
    WithEntry(prev, optionId, <<variationId>>)

\* lines 121-137
HandleCheckboxChange(prev, optionId, variationId, checked) ==
    LET currentSelections == EntryOf(prev, optionId) IN
    IF checked
    THEN WithEntry(prev, optionId, Append(currentSelections, variationId))
    ELSE WithEntry(prev, optionId,
                   SelectSeq(currentSelections, LAMBDA id : id # variationId))

\* line 277: the option is drawn as checkboxes, otherwise as a radio group
RendersCheckboxes(option) ==
    Truthy(option.maxOptions) /\ option.maxOptions.num > 1

\* lines 277-319: the buyer clicks variation v of option o; a checkbox
\* toggles, a radio item reports its value when it was not the chosen one
ChooseVariation(o, v) ==
    /\ PageShown
    /\ HandlesEvent
    /\ LET option == rendered.productOptions[o]
           variationId == option.variations[v].id
           current == EntryOf(rendered.selectedOptions, option.id)
       IN  IF RendersCheckboxes(option)
           THEN selectedOptions' =
                    HandleCheckboxChange(selectedOptions, option.id,
                        variationId, ~Includes(current, variationId))
           ELSE /\ ~(current # <<>> /\ current[1] = variationId)
                /\ selectedOptions' =
                    HandleRadioChange(selectedOptions, option.id, variationId)
    /\ toasts' = <<>>
    /\ lastStep' = NoStep
    /\ UNCHANGED <<routeId, quantity, product, productOptions, isLoading,
                   productFetches, screen, cartItem>>
    /\ UNCHANGED <<normVars, adminVars>>

\* lines 148-153: total after the variation ids of one entry
RECURSIVE AddVariations(_, _, _)
AddVariations(total, option, variationIds) ==
    IF variationIds = <<>> THEN total
    ELSE LET varId == Head(variationIds)
             found == {v \in 1..Len(option.variations) :
                            option.variations[v].id = varId}
             next == IF found = {} THEN total
                     ELSE FAdd(total,
                               option.variations[CHOOSE v \in found :
                                   \A w \in found : v <= w].price)
         IN  AddVariations(next, option, Tail(variationIds))

\* lines 144-154: total after the entries of selectedOptions
RECURSIVE AddEntries(_, _, _)
AddEntries(total, options, entries) ==
    IF entries = <<>> THEN total
    ELSE LET optionId == Head(entries).optionId
             found == {o \in 1..Len(options) : options[o].id = optionId}
             next == IF found = {} THEN total
                     ELSE AddVariations(total,
                              options[CHOOSE o \in found :
                                  \A w \in found : o <= w],
                              Head(entries).variationIds)
         IN  AddEntries(next, options, Tail(entries))

\* lines 139-157, without the multiplication by quantity
CalculateTotalPrice_PerUnit(prod, options, selected, qty) ==
    IF prod = JSNull THEN FZero
    ELSE AddEntries(prod.price, options, selected)

\* lines 139-157
CalculateTotalPrice(prod, options, selected, qty) ==
    IF prod = JSNull THEN FZero
    ELSE FMulInt(AddEntries(prod.price, options, selected), qty)

calculateTotalPrice ==
    CalculateTotalPrice(rendered.product, rendered.productOptions,
                        rendered.selectedOptions, rendered.quantity)

\* lines 188-190
isButtonDisabled ==
    \/ rendered.product = JSNull
    \/ \E o \in 1..Len(rendered.productOptions) :
          /\ rendered.productOptions[o].required
          /\ EntryOf(rendered.selectedOptions,
                     rendered.productOptions[o].id) = <<>>

\* lines 163-172
SelectedOptionsWithNames ==
    LET productOptions_ == rendered.productOptions
        shown == SelectSeq(rendered.selectedOptions, LAMBDA entry :
                    \E o \in 1..Len(productOptions_) :
                        productOptions_[o].id = entry.optionId)
        NameOf(option, varId) ==
            IF \E v \in 1..Len(option.variations) :
                    option.variations[v].id = varId
            THEN option.variations[CHOOSE v \in 1..Len(option.variations) :
                    option.variations[v].id = varId].name
            ELSE ""
    IN  [a \in 1..Len(shown) |->
            LET option == productOptions_[
                              CHOOSE o \in 1..Len(productOptions_) :
                                productOptions_[o].id = shown[a].optionId]
            IN  [title |-> option.title,
                 names |-> SelectSeq(
                    [b \in 1..Len(shown[a].variationIds) |->
                        NameOf(option, shown[a].variationIds[b])],
                    LAMBDA name : name # "")]]

\* lines 159-186; the button is disabled while isButtonDisabled (line 351)
HandleAddToCart ==
    /\ PageShown
    /\ ~isButtonDisabled
    /\ rendered.product # JSNull
    /\ cartItem' = [productId |-> rendered.product.id,
                    name |-> rendered.product.name,
                    price |-> FDivInt(calculateTotalPrice, rendered.quantity),
                    quantity |-> rendered.quantity,
                    selectedOptions |-> SelectedOptionsWithNames,
                    totalPrice |-> calculateTotalPrice]
    /\ screen' = "cart"
    /\ toasts' = <<>>
    /\ lastStep' = NoStep
    /\ UNCHANGED <<routeId, quantity, selectedOptions, product,
                   productOptions, isLoading, productFetches, rendered,
                   unrendered>>
    /\ UNCHANGED <<normVars, adminVars>>

NextProduct ==
    \/ \E newId \in ProductIds : ChangeRoute(newId)
    \/ \E i \in ProductSlots : ProductQueryFails(i)
    \/ \E i \in ProductSlots : ProductQueryAnswers(i)
    \/ \E i \in ProductSlots : OptionsQueryAnswers(i)
    \/ \E i \in ProductSlots : OptionsQueryFails(i)
    \/ HandleIncreaseQuantity
    \/ HandleDecreaseQuantity
    \/ \E o \in 1..Len(rendered.productOptions) :
          \E v \in 1..Len(rendered.productOptions[o].variations) :
             ChooseVariation(o, v)
    \/ HandleAddToCart
    \/ Render

SpecProduct == InitProduct /\ [][NextProduct]_vars

\* --------------------------------------------------------------------
\* Claims about the product screen
\* --------------------------------------------------------------------

\* The variation of the catalog that a selected pair names, if any.
InCatalog(options, optionId, varId) ==
    \E o \in 1..Len(options) :
        /\ options[o].id = optionId
        /\ \E v \in 1..Len(options[o].variations) :
              options[o].variations[v].id = varId

DeltaOf(options, optionId, varId) ==
    LET o == CHOOSE o \in 1..Len(options) : options[o].id = optionId
        v == CHOOSE v \in 1..Len(options[o].variations) :
                options[o].variations[v].id = varId
    IN  options[o].variations[v].price

\* The selected (option id, variation id) pairs, in selection order.
RECURSIVE SelectedPairs(_)
SelectedPairs(selected) ==
    IF selected = <<>> THEN <<>>
    ELSE [b \in 1..Len(Head(selected).variationIds) |->
              <<Head(selected).optionId, Head(selected).variationIds[b]>>]
         \o SelectedPairs(Tail(selected))

\* base + d1 + ... + dn, added from the left
RECURSIVE SumFrom(_, _)
SumFrom(base, deltas) ==
    IF deltas = <<>> THEN base
    ELSE SumFrom(FAdd(base, Head(deltas)), Tail(deltas))

\* The price deltas of the selected pairs that exist in the catalog.
ExistingDeltas(options, selected) ==
    LET existing == SelectSeq(SelectedPairs(selected), LAMBDA pair :
                        InCatalog(options, pair[1], pair[2]))
    IN  [k \in 1..Len(existing) |->
            DeltaOf(options, existing[k][1], existing[k][2])]

\* C3: whenever a product is loaded and quantity >= 1, calculateTotalPrice
\* is quantity times (base price plus the price deltas of the selected
\* variation ids that exist in the catalog, added in selection order);
\* selected ids that are not in the catalog contribute nothing, and with no
\* selected variation the result is quantity times the base price.
C3_TotalPriceIsLinear ==
    (rendered.product # JSNull /\ rendered.quantity >= 1) =>
        /\ calculateTotalPrice =
             FMulNat(SumFrom(rendered.product.price,
                             ExistingDeltas(rendered.productOptions,
                                            rendered.selectedOptions)),
                     rendered.quantity)
        /\ SelectedPairs(rendered.selectedOptions) = <<>> =>
             calculateTotalPrice =
                FMulNat(rendered.product.price, rendered.quantity)

\* A loaded product with quantity 2, one selected variation of the catalog
\* (+3.00 on a base of 19.90) and one selected option id left over from
\* another product: the total is 2 * (19.90 + 3.00).
C3_Witness ==
    /\ rendered.product # JSNull
    /\ ~rendered.isLoading
    /\ rendered.quantity = 2
    /\ \E a \in 1..Len(rendered.selectedOptions) :
          /\ rendered.selectedOptions[a].variationIds # <<>>
          /\ \A o \in 1..Len(rendered.productOptions) :
                rendered.productOptions[o].id #
                    rendered.selectedOptions[a].optionId
    /\ ExistingDeltas(rendered.productOptions, rendered.selectedOptions)
          = <<FromCents(300)>>
    /\ calculateTotalPrice =
          FMulNat(FAdd(FromCents(1990), FromCents(300)), 2)

\* C4: every cart item made by handleAddToCart has totalPrice equal to the
\* calculated total, price equal to that total divided by the quantity,
\* price equal to the base price plus the selected variation deltas, and
\* quantity times price equal to totalPrice.
C4_CartItemPrices ==
    cartItem # JSNull =>
        /\ cartItem.totalPrice = calculateTotalPrice
        /\ cartItem.price = FDivInt(cartItem.totalPrice, cartItem.quantity)
        /\ FMulInt(cartItem.price, cartItem.quantity) = cartItem.totalPrice
        /\ cartItem.price =
             SumFrom(rendered.product.price,
                     ExistingDeltas(rendered.productOptions,
                                    rendered.selectedOptions))

\* C11: the quantity is at least 1 in the state and in every render, after
\* every sequence of increase and decrease events, also when decrease events
\* are handled before the screen renders again; and handleAddToCart never
\* divides by a quantity of zero.
C11_QuantityAtLeastOne ==
    /\ quantity >= 1
    /\ rendered.quantity >= 1
    /\ cartItem # JSNull =>
          (cartItem.quantity # 0 /\ cartItem.price # FNaN)

\* The add button of the last render accepts a click.
AddButtonEnabled == PageShown /\ ~isButtonDisabled

\* Every option that the backend marks as required for the rendered product
\* has a selected variation in the rendered selection.
RequiredOptionsSelected ==
    /\ rendered.product # JSNull
    /\ LET backend == OptionsTable(rendered.product.id)
       IN  \A o \in 1..Len(backend) :
              backend[o].required =>
                 EntryOf(rendered.selectedOptions, backend[o].id) # <<>>

\* C12: the add button is enabled, and an item is added, only when the
\* product is loaded and every option that the backend marks as required
\* for it has at least one selected variation; also after a failed
\* product-options query.
C12_AddOnlyWithRequiredOptions ==
    (AddButtonEnabled \/ cartItem # JSNull) => RequiredOptionsSelected

\* Every entry of a selection map holds at most one variation id.
SingleChoice(selected) ==
    \A a \in 1..Len(selected) : Len(selected[a].variationIds) <= 1

\* The selection map changes only the way handleRadioChange changes it.
OnlyRadioChanges ==
    selectedOptions' # selectedOptions =>
        \E o \in 1..Len(rendered.productOptions) :
            \E v \in 1..Len(rendered.productOptions[o].variations) :
                selectedOptions' =
                    HandleRadioChange(selectedOptions,
                        rendered.productOptions[o].id,
                        rendered.productOptions[o].variations[v].id)

\* C13: every entry of the selection map holds at most one variation id (so
\* no duplicates), in the state and in every render; every loaded option has
\* a max-selection count of 1 or none and is drawn as a single-choice group;
\* and the selection changes only through handleRadioChange, never through
\* handleCheckboxChange.
C13_SingleChoiceOnly ==
    /\ [](/\ SingleChoice(selectedOptions)
          /\ SingleChoice(rendered.selectedOptions)
          /\ \A o \in 1..Len(productOptions) :
                /\ productOptions[o].maxOptions \in {JSNum(1), JSUndefined}
                /\ ~RendersCheckboxes(productOptions[o]))
    /\ [][OnlyRadioChanges]_vars

\* Both kinds of option are loaded (cap 1 and no cap), each has one selected
\* variation, and the choice of the required option has just been replaced:
\* the last render still shows v1 and the state holds v2 alone.
C13_Witness ==
    /\ \E o \in 1..Len(productOptions) :
          productOptions[o].maxOptions = JSNum(1)
    /\ \E o \in 1..Len(productOptions) :
          productOptions[o].maxOptions = JSUndefined
    /\ EntryOf(rendered.selectedOptions, "o1") = <<"v1">>
    /\ EntryOf(selectedOptions, "o1") = <<"v2">>
    /\ EntryOf(selectedOptions, "o2") = <<"v3">>

\* --------------------------------------------------------------------
\* The displayed list and the status filter
\* --------------------------------------------------------------------

\* C14 as stated: whenever no fetch is in flight and the status filter is
\* not 'all', every order of the displayed list has the status of the
\* filter.
C14_ListMatchesFilter ==
    (NoFetchInFlight /\ statusFilter # "all") =>
        \A j \in 1..Len(orders) : orders[j].status = statusFilter

\* A fetch stores its answer in this step.
StoresAnswer(i) ==
    fetches[i].phase = "profiles" /\ fetches'[i].phase = "done"

\* C14 as amended: the list that a completed fetch stores holds only orders
\* with the status of that fetch's own status filter (when it is not
\* 'all'), and the list is replaced or changed by nothing but a fetch that
\* stores its answer and a successful updateOrderStatus.
C14_StoredListMatchesItsQuery ==
    [][/\ \A i \in FetchSlots :
             (StoresAnswer(i) /\ fetches[i].statusFilter # "all") =>
                \A j \in 1..Len(orders') :
                    orders'[j].status = fetches[i].statusFilter
       /\ ((\A i \in FetchSlots : ~StoresAnswer(i))
           /\ (\A i \in UpdateSlots : ~SuccessStep(i)))
             => orders' = orders]_vars

\* Nothing is in flight, the filter is 'pending', and the list on display is
\* the answer to the query of that filter with an order in it.
C14_Witness ==
    /\ NoFetchInFlight
    /\ statusFilter = "pending"
    /\ ordersQuery # JSNull
    /\ ordersQuery.statusFilter = statusFilter
    /\ orders # <<>>
    /\ \A j \in 1..Len(orders) : orders[j].status = "pending"

============================================================================
